---- MODULE Spec2Model ----
(***************************************************************************)
(* A model of the directed-graph toolkit of src/graph.py: the object graph *)
(* built by DirectedGraph.add_vertex / get_vertex / add_edge and the       *)
(* traversal algorithms that read it (DFS path search, DFS reachability,   *)
(* Tarjan's strongly connected components, the condensed graph and the     *)
(* count of additional edges).                                             *)
(*                                                                         *)
(* Objects are modelled by identity: a Vertex instance is an index into    *)
(* vertexObjs, an Edge instance a key of edgeObjs.  A method is an         *)
(* operator from the receiver (a record of the four graph fields) and the  *)
(* arguments to the receiver afterwards (g) and the value returned (ret).  *)
(***************************************************************************)
EXTENDS Integers, Sequences, FiniteSets, TLC

VARIABLES
    vertices,    \* DirectedGraph.vertices: dict label -> Vertex, in insertion order
    edges,       \* DirectedGraph.edges: set of Edge instances
    vertexObjs,  \* the Vertex instances created so far (identity = index)
    edgeObjs,    \* the Edge instances created so far, by identity
    last,        \* the last call made on the graph and what it returned
    aug          \* the augmentation procedure's position and locals

vars == <<vertices, edges, vertexObjs, edgeObjs, last, aug>>

\* The labels callers use, in lexicographic order.
LabelSeq == <<"A", "B", "C">>

Labels == {LabelSeq[i] : i \in 1..Len(LabelSeq)}

\* AddEdge is not called once the graph holds MaxEdges edges.
MaxEdges == 3

\* The same bound where the other steps are many (Spec, SpecAug): AddEdgeFew.
MaxEdgesFew == 2

Range(s) == {s[i] : i \in 1..Len(s)}

Min(a, b) == IF a < b THEN a ELSE b

-----------------------------------------------------------------------------
(* Vertex and Edge                                                         *)

\* Vertex.__init__
Vertex_init(label) ==
    [label |-> label, incoming_edges |-> {}, outgoing_edges |-> {}]

\* Vertex.add_incoming_edge on the instance v of the heap vs
add_incoming_edge(vs, v, edge) ==
    [vs EXCEPT ![v].incoming_edges = @ \cup {edge}]

\* Vertex.add_outgoing_edge on the instance v of the heap vs
add_outgoing_edge(vs, v, edge) ==
    [vs EXCEPT ![v].outgoing_edges = @ \cup {edge}]

\* The identity of a fresh Edge instance.  Identities are only ever compared
\* for equality, so any value not in use serves: the instances between the
\* same two Vertex instances are numbered 1, 2, ...
NewEdge(g, start_vertex, end_vertex) ==
    <<start_vertex, end_vertex,
      1 + Cardinality({e \in DOMAIN g.edgeObjs :
                          e[1] = start_vertex /\ e[2] = end_vertex})>>

\* A plausible slip: the constructor forgets to register the edge in its end vertex.
Edge_init_no_incoming(g, start_vertex, end_vertex, weight) ==
    LET e == NewEdge(g, start_vertex, end_vertex)
        obj == [start_vertex |-> start_vertex, end_vertex |-> end_vertex,
                weight |-> weight]
    IN  [g |-> [g EXCEPT !.edgeObjs = (e :> obj) @@ @,
                         !.vertexObjs = add_outgoing_edge(@, start_vertex, e)],
         ret |-> e]

\* Edge.__init__: a new Edge instance, registered in both endpoints.
Edge_init(g, start_vertex, end_vertex, weight) ==
    LET e == NewEdge(g, start_vertex, end_vertex)
        obj == [start_vertex |-> start_vertex, end_vertex |-> end_vertex,
                weight |-> weight]
        vs1 == add_outgoing_edge(g.vertexObjs, start_vertex, e)
        vs2 == add_incoming_edge(vs1, end_vertex, e)
    IN  [g |-> [g EXCEPT !.edgeObjs = (e :> obj) @@ @, !.vertexObjs = vs2],
         ret |-> e]

-----------------------------------------------------------------------------
(* DirectedGraph: the container                                            *)

\* A dict with no keys.
EmptyDict == [k \in {} |-> 0]

\* DirectedGraph.__init__ (and no Vertex or Edge instance exists yet)
DirectedGraph_init ==
    [vertices |-> <<>>, edges |-> {}, vertexObjs |-> <<>>, edgeObjs |-> EmptyDict]

\* `label in self.vertices`
HasKey(g, label) == \E i \in 1..Len(g.vertices) : g.vertices[i].label = label

\* `self.vertices[label]` for a label that is a key
Item(g, label) ==
    g.vertices[CHOOSE i \in 1..Len(g.vertices) : g.vertices[i].label = label].vertex

\* `self.vertices.values()`, in the dict's insertion order
Values(g) == [i \in 1..Len(g.vertices) |-> g.vertices[i].vertex]

\* `self.vertices.keys()`
Keys(g) == {g.vertices[i].label : i \in 1..Len(g.vertices)}

\* `self.vertices[label] = Vertex(label)`: a new key goes last, an old key keeps its place
SetItem(g, label) ==
    LET v == Len(g.vertexObjs) + 1
        objs == Append(g.vertexObjs, Vertex_init(label))
    IN  IF HasKey(g, label)
        THEN [g EXCEPT !.vertexObjs = objs,
                       !.vertices = [i \in 1..Len(g.vertices) |->
                                        IF g.vertices[i].label = label
                                        THEN [label |-> label, vertex |-> v]
                                        ELSE g.vertices[i]]]
        ELSE [g EXCEPT !.vertexObjs = objs,
                       !.vertices = Append(@, [label |-> label, vertex |-> v])]

\* DirectedGraph.add_vertex
add_vertex(g, label) ==
    IF ~HasKey(g, label) THEN SetItem(g, label) ELSE g

\* DirectedGraph.get_vertex
get_vertex(g, label) ==
    LET g1 == IF ~HasKey(g, label) THEN add_vertex(g, label) ELSE g
    IN  [g |-> g1, ret |-> Item(g1, label)]

\* DirectedGraph.add_edge
add_edge(g, start, end) ==
    LET r1 == get_vertex(g, start)
        r2 == get_vertex(r1.g, end)
        r3 == Edge_init(r2.g, r1.ret, r2.ret, 1)
    IN  [r3.g EXCEPT !.edges = @ \cup {r3.ret}]


-----------------------------------------------------------------------------
(* Iteration order of a vertex's outgoing_edges                            *)
(*                                                                         *)
(* outgoing_edges is a Python set of Edge instances hashed by identity, so *)
(* `for edge in vertex.outgoing_edges` visits them in an order the program *)
(* does not control.  A traversal takes the order as a parameter: ord[v]   *)
(* is the sequence in which the set of the Vertex instance v is visited.   *)

RECURSIVE PermSeqs(_)

\* The sequences that list every element of S once.
PermSeqs(S) ==
    IF S = {} THEN {<<>>}
    ELSE UNION {{<<x>> \o p : p \in PermSeqs(S \ {x})} : x \in S}

RECURSIVE IterOrders(_, _)
IterOrders(g, n) ==
    IF n = 0 THEN {<<>>}
    ELSE {Append(f, p) : f \in IterOrders(g, n - 1),
                         p \in PermSeqs(g.vertexObjs[n].outgoing_edges)}

Orders(g) == IterOrders(g, Len(g.vertexObjs))

-----------------------------------------------------------------------------
(* DirectedGraph.get_path                                                  *)

\* A reference to a Vertex or an Edge instance, as held by visited and path.
VertexRef(v) == [kind |-> "Vertex", id |-> v]
EdgeRef(e) == [kind |-> "Edge", id |-> e]

RECURSIVE path_dfs(_, _, _, _, _), path_loop(_, _, _, _, _)

\* The nested dfs of get_path.  st holds visited and path, the value returned
\* (ret) and the exception raised, if any.
path_dfs(g, ord, current, end, st) ==
    IF current = end THEN [st EXCEPT !.ret = TRUE]
    ELSE LET st1 == [st EXCEPT !.visited = @ \cup {current},
                               !.path = Append(@, current)]
         IN  IF current.kind # "Vertex"
             THEN \* an Edge has no attribute outgoing_edges
                  [st1 EXCEPT !.raised = "AttributeError"]
             ELSE LET st2 == path_loop(g, ord, ord[current.id], end, st1)
                  IN  IF st2.raised # "" \/ st2.ret THEN st2
                      ELSE [st2 EXCEPT !.path = SubSeq(@, 1, Len(@) - 1),
                                       !.ret = FALSE]

\* `for neighbor in current.outgoing_edges`: neighbor is the Edge itself.
path_loop(g, ord, es, end, st) ==
    IF es = <<>> THEN [st EXCEPT !.ret = FALSE]
    ELSE LET neighbor == EdgeRef(Head(es))
             st1 == IF neighbor \notin st.visited
                    THEN path_dfs(g, ord, neighbor, end, st)
                    ELSE [st EXCEPT !.ret = FALSE]
         IN  IF st1.raised # "" \/ st1.ret THEN st1
             ELSE path_loop(g, ord, Tail(es), end, st1)

get_path(g, start_label, end_label, ord) ==
    IF ~HasKey(g, start_label) \/ ~HasKey(g, end_label)
    THEN [g |-> g, ret |-> <<>>, raised |-> ""]
    ELSE LET end == VertexRef(Item(g, end_label))
             st == path_dfs(g, ord, VertexRef(Item(g, start_label)), end,
                            [visited |-> {}, path |-> <<>>, ret |-> FALSE,
                             raised |-> ""])
         IN  IF st.raised # ""
             THEN [g |-> g, ret |-> <<>>, raised |-> st.raised]
             ELSE [g |-> g,
                   ret |-> IF st.path # <<>> THEN Append(st.path, end) ELSE st.path,
                   raised |-> ""]

-----------------------------------------------------------------------------
(* DirectedGraph.get_all_reachable_vertices                                *)

RECURSIVE reach_dfs(_, _, _, _), reach_loop(_, _, _, _)

\* A plausible slip: the dfs follows get_neighbours(), the vertices at the
\* other end of the outgoing and of the incoming edges.
reach_dfs_neighbours(g, ord, current, st) ==
    LET st1 == [visited |-> st.visited \cup {current},
                reachable |-> st.reachable \cup {g.vertexObjs[current].label}]
        back == {e \in g.vertexObjs[current].incoming_edges :
                    g.edgeObjs[e].start_vertex \notin st1.visited}
    IN  IF back = {}
        THEN reach_loop(g, ord, ord[current], st1)
        ELSE reach_dfs(g, ord, g.edgeObjs[CHOOSE e \in back : TRUE].start_vertex,
                       reach_loop(g, ord, ord[current], st1))

\* The nested dfs of get_all_reachable_vertices; st holds visited and reachable.
reach_dfs(g, ord, current, st) ==
    LET st1 == [visited |-> st.visited \cup {current},
                reachable |-> st.reachable \cup {g.vertexObjs[current].label}]
    IN  reach_loop(g, ord, ord[current], st1)

\* A plausible slip: the neighbour is read from the wrong end of the edge.
reach_loop_start_vertex(g, ord, es, st) ==
    IF es = <<>> THEN st
    ELSE LET neighbor == g.edgeObjs[Head(es)].start_vertex
             st1 == IF neighbor \notin st.visited
                    THEN reach_dfs(g, ord, neighbor, st)
                    ELSE st
         IN  reach_loop(g, ord, Tail(es), st1)

reach_loop(g, ord, es, st) ==
    IF es = <<>> THEN st
    ELSE LET neighbor == g.edgeObjs[Head(es)].end_vertex
             st1 == IF neighbor \notin st.visited
                    THEN reach_dfs(g, ord, neighbor, st)
                    ELSE st
         IN  reach_loop(g, ord, Tail(es), st1)

\* A plausible slip: the start vertex is fetched with get_vertex, which
\* creates it when it is missing.
get_all_reachable_vertices_get_vertex(g, start_label, ord) ==
    LET r == get_vertex(g, start_label)
        ord1 == IF Len(r.g.vertexObjs) > Len(ord) THEN Append(ord, <<>>) ELSE ord
    IN  [g |-> r.g,
         ret |-> reach_dfs(r.g, ord1, r.ret,
                           [visited |-> {}, reachable |-> {}]).reachable]

get_all_reachable_vertices(g, start_label, ord) ==
    IF ~HasKey(g, start_label)
    THEN [g |-> g, ret |-> {}]
    ELSE [g |-> g,
          ret |-> reach_dfs(g, ord, Item(g, start_label),
                            [visited |-> {}, reachable |-> {}]).reachable]

-----------------------------------------------------------------------------
(* DirectedGraph.get_strongly_connected_components (Tarjan)                *)

RECURSIVE pop_component(_, _, _, _)

\* A plausible slip: components.insert(0, component) for components.append.
pop_component_prepend(g, vertex, st, component) ==
    LET w == st.stack[Len(st.stack)]
        st1 == [st EXCEPT !.stack = SubSeq(@, 1, Len(@) - 1),
                          !.on_stack = @ \ {w}]
        component1 == component \cup {g.vertexObjs[w].label}
    IN  IF w = vertex
        THEN [st1 EXCEPT !.components = <<component1>> \o @]
        ELSE pop_component(g, vertex, st1, component1)

\* The `while True` loop of strongconnect: pop down to and including vertex.
pop_component(g, vertex, st, component) ==
    LET w == st.stack[Len(st.stack)]
        st1 == [st EXCEPT !.stack = SubSeq(@, 1, Len(@) - 1),
                          !.on_stack = @ \ {w}]
        component1 == component \cup {g.vertexObjs[w].label}
    IN  IF w = vertex
        THEN [st1 EXCEPT !.components = Append(@, component1)]
        ELSE pop_component(g, vertex, st1, component1)

RECURSIVE strongconnect(_, _, _, _)
RECURSIVE strongconnect_loop(_, _, _, _, _)

\* The nested strongconnect.  st holds index, stack, indices, lowlinks,
\* on_stack and components.
strongconnect(g, ord, vertex, st) ==
    LET st1 == [st EXCEPT !.indices = (vertex :> st.index) @@ @,
                          !.lowlinks = (vertex :> st.index) @@ @,
                          !.index = @ + 1,
                          !.stack = Append(@, vertex),
                          !.on_stack = @ \cup {vertex}]
        st2 == strongconnect_loop(g, ord, vertex, ord[vertex], st1)
    IN  IF st2.lowlinks[vertex] = st2.indices[vertex]
        THEN pop_component(g, vertex, st2, {})
        ELSE st2

\* A plausible slip: the test `neighbor in on_stack` is left out.
strongconnect_loop_no_on_stack(g, ord, vertex, es, st) ==
    IF es = <<>> THEN st
    ELSE LET neighbor == g.edgeObjs[Head(es)].end_vertex
             st1 == IF neighbor \notin DOMAIN st.indices
                    THEN LET s2 == strongconnect(g, ord, neighbor, st)
                         IN  [s2 EXCEPT !.lowlinks[vertex] =
                                            Min(@, s2.lowlinks[neighbor])]
                    ELSE [st EXCEPT !.lowlinks[vertex] =
                                        Min(@, st.indices[neighbor])]
         IN  strongconnect_loop(g, ord, vertex, Tail(es), st1)

\* `for edge in vertex.outgoing_edges` of strongconnect
strongconnect_loop(g, ord, vertex, es, st) ==
    IF es = <<>> THEN st
    ELSE LET neighbor == g.edgeObjs[Head(es)].end_vertex
             st1 == IF neighbor \notin DOMAIN st.indices
                    THEN LET s2 == strongconnect(g, ord, neighbor, st)
                         IN  [s2 EXCEPT !.lowlinks[vertex] =
                                            Min(@, s2.lowlinks[neighbor])]
                    ELSE IF neighbor \in st.on_stack
                    THEN [st EXCEPT !.lowlinks[vertex] =
                                        Min(@, st.indices[neighbor])]
                    ELSE st
         IN  strongconnect_loop(g, ord, vertex, Tail(es), st1)

RECURSIVE scc_roots(_, _, _, _)

\* `for vertex in self.vertices.values()` of get_strongly_connected_components
scc_roots(g, ord, vs, st) ==
    IF vs = <<>> THEN st
    ELSE LET st1 == IF Head(vs) \notin DOMAIN st.indices
                    THEN strongconnect(g, ord, Head(vs), st)
                    ELSE st
         IN  scc_roots(g, ord, Tail(vs), st1)

\* The list returned is a TLA+ sequence: Python's components[i] is ret[i + 1].
get_strongly_connected_components(g, ord) ==
    [g |-> g,
     ret |-> scc_roots(g, ord, Values(g),
                       [index |-> 0, stack |-> <<>>, indices |-> EmptyDict,
                        lowlinks |-> EmptyDict, on_stack |-> {},
                        components |-> <<>>]).components]

-----------------------------------------------------------------------------
(* DirectedGraph.build_condensed_graph                                     *)

\* component_map after the two nested loops: a label's entry is the last
\* component (0-based) that holds it.
ComponentMap(sccs) ==
    LET labelled == UNION Range(sccs)
    IN  [label \in labelled |->
            CHOOSE i \in 0..(Len(sccs) - 1) :
                /\ label \in sccs[i + 1]
                /\ \A j \in 0..(Len(sccs) - 1) : label \in sccs[j + 1] => j <= i]

StartLabel(g, e) == g.vertexObjs[g.edgeObjs[e].start_vertex].label
EndLabel(g, e) == g.vertexObjs[g.edgeObjs[e].end_vertex].label

\* A plausible slip: the test `start_component != end_component` is left out.
build_condensed_graph_keeps_loops(g, sccs) ==
    LET component_map == ComponentMap(sccs)
        ids == 0..(Len(sccs) - 1)
    IN  [g |-> g,
         ret |-> [i \in ids |->
                     {component_map[EndLabel(g, e)] :
                         e \in {x \in g.edges : component_map[StartLabel(g, x)] = i}}],
         raised |-> ""]

build_condensed_graph(g, sccs) ==
    LET component_map == ComponentMap(sccs)
        ids == 0..(Len(sccs) - 1)
    IN  IF \E e \in g.edges : StartLabel(g, e) \notin DOMAIN component_map
                              \/ EndLabel(g, e) \notin DOMAIN component_map
        THEN [g |-> g, ret |-> [i \in ids |-> {}], raised |-> "KeyError"]
        ELSE [g |-> g,
              ret |-> [i \in ids |->
                          {component_map[EndLabel(g, e)] :
                              e \in {x \in g.edges :
                                       /\ component_map[StartLabel(g, x)] = i
                                       /\ component_map[EndLabel(g, x)] # i}}],
              raised |-> ""]

-----------------------------------------------------------------------------
(* DirectedGraph.count_min_additional_edges                                *)

\* A plausible slip: the start's own component is not excluded from the count.
count_min_additional_edges_counts_start(g, start_label, ord) ==
    LET sccs == get_strongly_connected_components(g, ord).ret
        condensed_graph == build_condensed_graph(g, sccs).ret
        ids == 0..(Len(sccs) - 1)
        in_degrees ==
            [i \in ids |->
                Cardinality({node \in DOMAIN condensed_graph :
                                i \in condensed_graph[node]})]
    IN  [g |-> g, ret |-> Cardinality({node \in ids : in_degrees[node] = 0})]

\* A plausible slip: `in_degrees[node] += 1` for `in_degrees[neighbor] += 1`,
\* which counts the edges that leave a component.
count_min_additional_edges_out_degree(g, start_label, ord) ==
    LET sccs == get_strongly_connected_components(g, ord).ret
        condensed_graph == build_condensed_graph(g, sccs).ret
        ids == 0..(Len(sccs) - 1)
        start_component ==
            IF \E i \in ids : start_label \in sccs[i + 1]
            THEN CHOOSE i \in ids :
                    /\ start_label \in sccs[i + 1]
                    /\ \A j \in ids : start_label \in sccs[j + 1] => i <= j
            ELSE -1
        in_degrees == [i \in ids |-> Cardinality(condensed_graph[i])]
    IN  [g |-> g,
         ret |-> Cardinality({node \in ids :
                                 in_degrees[node] = 0 /\ node # start_component})]

count_min_additional_edges(g, start_label, ord) ==
    LET sccs == get_strongly_connected_components(g, ord).ret
        condensed_graph == build_condensed_graph(g, sccs).ret
        ids == 0..(Len(sccs) - 1)
        start_component ==
            IF \E i \in ids : start_label \in sccs[i + 1]
            THEN CHOOSE i \in ids :
                    /\ start_label \in sccs[i + 1]
                    /\ \A j \in ids : start_label \in sccs[j + 1] => i <= j
            ELSE -1
        in_degrees ==
            [i \in ids |->
                Cardinality({node \in DOMAIN condensed_graph :
                                i \in condensed_graph[node]})]
        zero_in_degree_count ==
            Cardinality({node \in ids :
                            in_degrees[node] = 0 /\ node # start_component})
    IN  [g |-> g, ret |-> zero_in_degree_count]

-----------------------------------------------------------------------------
(* What the claims speak of, defined without the traversals under test     *)

\* The pairs <<u, v>> of labels joined by an edge u -> v of the edge collection.
EdgeRel(g) == {<<StartLabel(g, e), EndLabel(g, e)>> : e \in g.edges}

RECURSIVE ReachFrom(_, _)

\* The least set that holds S and is closed under the successors of rel.
ReachFrom(rel, S) ==
    LET N == S \cup {p[2] : p \in {q \in rel : q[1] \in S}}
    IN  IF N = S THEN S ELSE ReachFrom(rel, N)

\* The labels a directed path of zero or more edges leads to from s.
PathReach(g, s) == IF s \in Keys(g) THEN ReachFrom(EdgeRel(g), {s}) ELSE {}

\* Every vertex of the graph is reachable from s.
Covered(g, s) == Keys(g) \subseteq PathReach(g, s)

\* Some directed cycle of rel passes through x.
OnCycle(rel, x) == x \in ReachFrom(rel, {p[2] : p \in {q \in rel : q[1] = x}})

\* The position (0-based) of the component of comps that holds label.
PositionOf(comps, label) ==
    CHOOSE i \in 0..(Len(comps) - 1) : label \in comps[i + 1]

-----------------------------------------------------------------------------
(* The constructive augmentation (get_min_additional_edges)                *)
(*                                                                         *)
(* src/main.py calls graph.get_min_additional_edges(start), a method that  *)
(* src/graph.py does not define.  It is modelled from its description:     *)
(* while some vertex is unreachable from the start, add an edge from the   *)
(* smallest reachable label to the smallest unreachable label and          *)
(* recompute.  An absent start label has no reachable vertex, so with a    *)
(* non-empty graph there is no smallest reachable label to pick.  What     *)
(* happens then is not described: the call either raises (the minimum of   *)
(* an empty collection, ValueError) or fails soft with an empty list; in   *)
(* both cases no edge is added.                                            *)

\* The lexicographically smallest label of a non-empty set of labels.
MinLabel(S) ==
    LabelSeq[CHOOSE i \in 1..Len(LabelSeq) :
                /\ LabelSeq[i] \in S
                /\ \A j \in 1..(i - 1) : LabelSeq[j] \notin S]

\* The vertices not reachable from start_label, given the reachable ones.
Unreachable(g, reachable) == Keys(g) \ reachable

\* The edge one round of the loop adds.
NextAdditionalEdge(reachable, unreachable) ==
    <<MinLabel(reachable), MinLabel(unreachable)>>

-----------------------------------------------------------------------------
(* State, initial state and the mutating calls                             *)

self ==
    [vertices |-> vertices, edges |-> edges,
     vertexObjs |-> vertexObjs, edgeObjs |-> edgeObjs]

Becomes(g) ==
    /\ vertices' = g.vertices
    /\ edges' = g.edges
    /\ vertexObjs' = g.vertexObjs
    /\ edgeObjs' = g.edgeObjs

\* raised is the name of the exception the call ended with, "" when it returned.
Call(op, args, ret, raised) ==
    [op |-> op, args |-> args, ret |-> ret, raised |-> raised]

AugIdle == [pc |-> "idle"]

Init ==
    /\ vertices = DirectedGraph_init.vertices
    /\ edges = DirectedGraph_init.edges
    /\ vertexObjs = DirectedGraph_init.vertexObjs
    /\ edgeObjs = DirectedGraph_init.edgeObjs
    /\ last = Call("init", <<>>, <<>>, "")
    /\ aug = AugIdle

AddVertex ==
    \E label \in Labels :
        /\ aug.pc = "idle"
        /\ Becomes(add_vertex(self, label))
        /\ last' = Call("add_vertex", <<>>, <<>>, "")
        /\ UNCHANGED aug

GetVertex ==
    \E label \in Labels :
        LET r == get_vertex(self, label)
        IN  /\ aug.pc = "idle"
            /\ Becomes(r.g)
            /\ last' = Call("get_vertex", <<label>>, r.ret, "")
            /\ UNCHANGED aug

\* A caller that stops adding edges once the graph holds max of them.
AddEdgeUpTo(max) ==
    \E start \in Labels, end \in Labels :
        /\ aug.pc = "idle"
        /\ Cardinality(edges) < max
        /\ Becomes(add_edge(self, start, end))
        /\ last' = Call("add_edge", <<>>, <<>>, "")
        /\ UNCHANGED aug

AddEdge == AddEdgeUpTo(MaxEdges)

AddEdgeFew == AddEdgeUpTo(MaxEdgesFew)

NextGraph == AddVertex \/ GetVertex \/ AddEdge

SpecGraph == Init /\ [][NextGraph]_vars

-----------------------------------------------------------------------------
(* The queries                                                             *)

GetPath ==
    \E start_label \in Labels, end_label \in Labels :
        \E ord \in Orders(self) :
            LET r == get_path(self, start_label, end_label, ord)
            IN  /\ aug.pc = "idle"
                /\ Becomes(r.g)
                /\ last' = Call("get_path", <<start_label, end_label>>,
                                r.ret, r.raised)
                /\ UNCHANGED aug

GetAllReachableVertices ==
    \E start_label \in Labels :
        \E ord \in Orders(self) :
            LET r == get_all_reachable_vertices(self, start_label, ord)
            IN  /\ aug.pc = "idle"
                /\ Becomes(r.g)
                /\ last' = Call("get_all_reachable_vertices", <<start_label>>,
                                r.ret, "")
                /\ UNCHANGED aug

GetStronglyConnectedComponents ==
    \E ord \in Orders(self) :
        LET r == get_strongly_connected_components(self, ord)
        IN  /\ aug.pc = "idle"
            /\ Becomes(r.g)
            /\ last' = Call("get_strongly_connected_components", <<>>, r.ret, "")
            /\ UNCHANGED aug

\* build_condensed_graph on the list get_strongly_connected_components returned
BuildCondensedGraph ==
    \E ord \in Orders(self) :
        LET r1 == get_strongly_connected_components(self, ord)
            r == build_condensed_graph(r1.g, r1.ret)
        IN  /\ aug.pc = "idle"
            /\ Becomes(r.g)
            /\ last' = Call("build_condensed_graph", <<r1.ret>>, r.ret, r.raised)
            /\ UNCHANGED aug

CountMinAdditionalEdges ==
    \E start_label \in Labels :
        \E ord \in Orders(self) :
            LET r == count_min_additional_edges(self, start_label, ord)
            IN  /\ aug.pc = "idle"
                /\ Becomes(r.g)
                /\ last' = Call("count_min_additional_edges", <<start_label>>,
                                r.ret, "")
                /\ UNCHANGED aug

Build == AddVertex \/ AddEdge

NextPath == Build \/ GetPath

SpecPath == Init /\ [][NextPath]_vars

NextReach == Build \/ GetAllReachableVertices

SpecReach == Init /\ [][NextReach]_vars

NextScc == Build \/ GetStronglyConnectedComponents \/ BuildCondensedGraph

SpecScc == Init /\ [][NextScc]_vars

NextCount == Build \/ CountMinAdditionalEdges

SpecCount == Init /\ [][NextCount]_vars

Next ==
    \/ AddVertex
    \/ AddEdgeFew
    \/ GetPath
    \/ GetAllReachableVertices
    \/ GetStronglyConnectedComponents
    \/ BuildCondensedGraph
    \/ CountMinAdditionalEdges

Spec == Init /\ [][Next]_vars

-----------------------------------------------------------------------------
(* The augmentation procedure, one round of its loop per step              *)

AugOp == "get_min_additional_edges"

\* The record of a call of the augmentation: covered_before tells whether
\* every vertex was reachable from the start label when it was called.
AugCall(start_label, ret, raised, covered_before) ==
    [op |-> AugOp, args |-> <<start_label>>, ret |-> ret, raised |-> raised,
     covered_before |-> covered_before]

AugStart ==
    \E start_label \in Labels :
        \E ord \in Orders(self) :
            LET reachable == get_all_reachable_vertices(self, start_label, ord).ret
                unreachable == Unreachable(self, reachable)
                covered_before == Keys(self) \subseteq PathReach(self, start_label)
            IN  /\ aug.pc = "idle"
                /\ last' = AugCall(start_label, <<>>, "", covered_before)
                /\ aug' = IF unreachable = {} THEN AugIdle
                          ELSE [pc |-> "loop", start_label |-> start_label,
                                reachable |-> reachable,
                                unreachable |-> unreachable, result |-> <<>>]
                /\ UNCHANGED <<vertices, edges, vertexObjs, edgeObjs>>

AugStep ==
    /\ aug.pc = "loop"
    /\ aug.unreachable # {}
    /\ aug.reachable # {}
    /\ LET edge == NextAdditionalEdge(aug.reachable, aug.unreachable)
           g1 == add_edge(self, edge[1], edge[2])
       IN  \E ord \in Orders(g1) :
               LET reachable == get_all_reachable_vertices(g1, aug.start_label, ord).ret
               IN  /\ Becomes(g1)
                   /\ aug' = [aug EXCEPT !.reachable = reachable,
                                         !.unreachable = Unreachable(g1, reachable),
                                         !.result = Append(@, edge)]
                   /\ UNCHANGED last

\* No reachable label to pick: the call raises or returns the empty list.
AugRaise ==
    /\ aug.pc = "loop"
    /\ aug.unreachable # {}
    /\ aug.reachable = {}
    /\ \E outcome \in {"ValueError", ""} :
          last' = AugCall(aug.start_label, <<>>, outcome, last.covered_before)
    /\ aug' = AugIdle
    /\ UNCHANGED <<vertices, edges, vertexObjs, edgeObjs>>

AugReturn ==
    /\ aug.pc = "loop"
    /\ aug.unreachable = {}
    /\ last' = AugCall(aug.start_label, aug.result, "", last.covered_before)
    /\ aug' = AugIdle
    /\ UNCHANGED <<vertices, edges, vertexObjs, edgeObjs>>

NextAug == AddVertex \/ AddEdgeFew \/ AugStart \/ AugStep \/ AugRaise \/ AugReturn

SpecAug == Init /\ [][NextAug]_vars

-----------------------------------------------------------------------------
(* C1                                                                      *)

\* C1: get_path(s, e) returns [] without raising when s or e is absent or no
\* directed path leads from s to e; otherwise it returns a non-empty sequence
\* of vertices from s to e whose consecutive pairs are joined by an edge.
\* (The code does not do this: see C1_RaisesOnOutgoingEdge.)
C1_GetPathContract ==
    last.op = "get_path" =>
        LET s == last.args[1]
            e == last.args[2]
            path == last.ret
        IN  /\ last.raised = ""
            /\ IF s \notin Keys(self) \/ e \notin Keys(self)
                  \/ e \notin PathReach(self, s)
               THEN path = <<>>
               ELSE /\ path # <<>>
                    /\ path[1] = VertexRef(Item(self, s))
                    /\ path[Len(path)] = VertexRef(Item(self, e))
                    /\ \A i \in 1..Len(path) : path[i].kind = "Vertex"
                    /\ \A i \in 1..(Len(path) - 1) :
                          \E x \in edges :
                              /\ edgeObjs[x].start_vertex = path[i].id
                              /\ edgeObjs[x].end_vertex = path[i + 1].id

\* The failing call: start and end are different vertices and start has an
\* outgoing edge, and get_path ends with AttributeError.
C1_RaisesOnOutgoingEdge ==
    /\ last.op = "get_path"
    /\ last.raised = "AttributeError"
    /\ <<last.args[1], last.args[2]>> \in EdgeRel(self)

-----------------------------------------------------------------------------
(* C2                                                                      *)

\* C2: get_all_reachable_vertices(s) returns the empty set when s is not a
\* vertex, and otherwise exactly the labels that a directed path of zero or
\* more edges leads to from s (s itself among them).
C2_ReachableExact ==
    last.op = "get_all_reachable_vertices" =>
        LET s == last.args[1]
        IN  /\ s \notin Keys(self) => last.ret = {}
            /\ s \in Keys(self) =>
                  /\ s \in last.ret
                  /\ last.ret = ReachFrom(EdgeRel(self), {s})

\* A call whose result holds a vertex that only a path of two edges leads to,
\* in a graph where an edge leads back to the start.
C2_Witness ==
    /\ last.op = "get_all_reachable_vertices"
    /\ last.args[1] \in Keys(self)
    /\ \E v \in last.ret :
          /\ v # last.args[1]
          /\ <<last.args[1], v>> \notin EdgeRel(self)
          /\ <<v, last.args[1]>> \in EdgeRel(self)

-----------------------------------------------------------------------------
(* C3                                                                      *)

\* C3: get_strongly_connected_components() returns a partition of the vertex
\* set (union the vertex set, components pairwise disjoint) whose classes are
\* those of mutual reachability; a vertex on no cycle is alone in its component.
C3_SccPartition ==
    last.op = "get_strongly_connected_components" =>
        LET comps == last.ret
            rel == EdgeRel(self)
        IN  /\ UNION Range(comps) = Keys(self)
            /\ \A i, j \in 1..Len(comps) : i # j => comps[i] \cap comps[j] = {}
            /\ \A u, v \in Keys(self) :
                  (\E i \in 1..Len(comps) : u \in comps[i] /\ v \in comps[i])
                  <=> (v \in ReachFrom(rel, {u}) /\ u \in ReachFrom(rel, {v}))
            /\ \A u \in Keys(self) :
                  ~OnCycle(rel, u) => \E i \in 1..Len(comps) : comps[i] = {u}

\* A result with a component of two vertices, on a cycle, and a singleton.
C3_Witness ==
    /\ last.op = "get_strongly_connected_components"
    /\ \E i \in 1..Len(last.ret) : Cardinality(last.ret[i]) = 2
    /\ \E i \in 1..Len(last.ret) : Cardinality(last.ret[i]) = 1
    /\ Cardinality(edges) = 3

-----------------------------------------------------------------------------
(* C4                                                                      *)

\* The successor pairs of a condensed graph.
CondensedRel(cg) == {<<i, j>> \in (DOMAIN cg) \X (DOMAIN cg) : j \in cg[i]}

\* C4: build_condensed_graph of the components Tarjan returned has one key
\* per component and no directed cycle: no component id is its own successor
\* and no chain of successors leads back to where it started.
C4_CondensedAcyclic ==
    last.op = "build_condensed_graph" =>
        LET sccs == last.args[1]
            cg == last.ret
        IN  /\ last.raised = ""
            /\ DOMAIN cg = 0..(Len(sccs) - 1)
            /\ \A i \in DOMAIN cg : cg[i] \subseteq DOMAIN cg
            /\ \A i \in DOMAIN cg : i \notin cg[i]
            /\ \A i \in DOMAIN cg : ~OnCycle(CondensedRel(cg), i)

\* A condensed graph with a successor, of a graph with a self-loop and two
\* edges between the same ordered pair of vertices.
C4_Witness ==
    /\ last.op = "build_condensed_graph"
    /\ \E i \in DOMAIN last.ret : last.ret[i] # {}
    /\ \E p \in EdgeRel(self) : p[1] = p[2]
    /\ \E x, y \in edges :
          /\ x # y
          /\ StartLabel(self, x) = StartLabel(self, y)
          /\ EndLabel(self, x) = EndLabel(self, y)
          /\ StartLabel(self, x) # EndLabel(self, x)

-----------------------------------------------------------------------------
(* C5                                                                      *)

\* C5: count_min_additional_edges(s) returns 0 exactly when every vertex of
\* the graph is reachable from s (s a vertex or not).
C5_ZeroIffCovered ==
    last.op = "count_min_additional_edges" =>
        (last.ret = 0 <=> PathReach(self, last.args[1]) = Keys(self))

\* A count of 0 for a start that reaches two other vertices that do not reach it.
C5_Witness ==
    /\ last.op = "count_min_additional_edges"
    /\ last.ret = 0
    /\ Cardinality(Keys(self)) = 3
    /\ \A v \in Keys(self) \ {last.args[1]} : last.args[1] \notin PathReach(self, v)

-----------------------------------------------------------------------------
(* C6                                                                      *)

\* The sets of n pairs of vertices of g that are not yet joined by an edge.
NewEdgeSets(g, n) ==
    {X \in SUBSET ((Keys(g) \X Keys(g)) \ EdgeRel(g)) : Cardinality(X) = n}

\* C6: for a vertex s, the count k returned by count_min_additional_edges(s)
\* is the least number of new edges that make every vertex reachable from s:
\* no set of fewer than k edges between vertices does, and some set of k does.
C6_CountIsMinimum ==
    (last.op = "count_min_additional_edges" /\ last.args[1] \in Keys(self)) =>
        LET s == last.args[1]
            k == last.ret
            V == Keys(self)
            rel == EdgeRel(self)
        IN  /\ \A X \in SUBSET (V \X V) :
                  Cardinality(X) < k => ReachFrom(rel \cup X, {s}) # V
            /\ \E X \in NewEdgeSets(self, k) : ReachFrom(rel \cup X, {s}) = V

\* A count of 2: two vertices that nothing reaches, besides the start.
C6_Witness ==
    /\ last.op = "count_min_additional_edges"
    /\ last.args[1] \in Keys(self)
    /\ last.ret = 2

-----------------------------------------------------------------------------
(* C8                                                                      *)

\* The Vertex instance v is the one registered under its label.
Registered(g, v) ==
    /\ v \in DOMAIN g.vertexObjs
    /\ HasKey(g, g.vertexObjs[v].label)
    /\ Item(g, g.vertexObjs[v].label) = v

\* C8: after any calls of add_vertex, get_vertex and add_edge, every edge of
\* the edge collection is in its start vertex's outgoing set and its end
\* vertex's incoming set, both endpoints are the vertices registered for their
\* labels, and every edge in a registered vertex's incoming or outgoing set
\* is in the edge collection.
C8_EdgesAttached ==
    /\ \A e \in edges :
          /\ e \in DOMAIN edgeObjs
          /\ Registered(self, edgeObjs[e].start_vertex)
          /\ Registered(self, edgeObjs[e].end_vertex)
          /\ e \in vertexObjs[edgeObjs[e].start_vertex].outgoing_edges
          /\ e \in vertexObjs[edgeObjs[e].end_vertex].incoming_edges
    /\ \A i \in 1..Len(vertices) :
          LET v == vertices[i].vertex
          IN  vertexObjs[v].incoming_edges \cup vertexObjs[v].outgoing_edges
                  \subseteq edges

\* A graph with a self-loop and two edges between the same ordered pair,
\* reached by calls of all three operations.
C8_Witness ==
    /\ \E e \in edges : edgeObjs[e].start_vertex = edgeObjs[e].end_vertex
    /\ \E x, y \in edges :
          /\ x # y
          /\ edgeObjs[x].start_vertex = edgeObjs[y].start_vertex
          /\ edgeObjs[x].end_vertex = edgeObjs[y].end_vertex
          /\ edgeObjs[x].start_vertex # edgeObjs[x].end_vertex
    /\ Len(vertices) = 3
    /\ last.op = "get_vertex"

-----------------------------------------------------------------------------
(* C9                                                                      *)

\* C9: the list Tarjan returns is in reverse topological order: an edge from
\* the component at position i to a different component at position j has
\* j < i, so every successor id of its condensed graph is below its key.
C9_ReverseTopological ==
    /\ last.op = "get_strongly_connected_components" =>
          \A e \in edges :
              LET i == PositionOf(last.ret, StartLabel(self, e))
                  j == PositionOf(last.ret, EndLabel(self, e))
              IN  i # j => j < i
    /\ last.op = "build_condensed_graph" =>
          \A i \in DOMAIN last.ret : \A j \in last.ret[i] : j < i

\* A condensed graph of three components in a chain.
C9_Witness ==
    /\ last.op = "build_condensed_graph"
    /\ Len(last.args[1]) = 3
    /\ \E i, j \in DOMAIN last.ret :
          i # j /\ last.ret[i] # {} /\ last.ret[j] # {}

-----------------------------------------------------------------------------
(* C10                                                                     *)

QueryOps ==
    {"get_path", "get_all_reachable_vertices", "get_strongly_connected_components",
     "build_condensed_graph", "count_min_additional_edges"}

\* C10: a query leaves the graph as it was: the registered labels and their
\* vertices, the edge collection, every edge's start and end vertex and every
\* vertex's incoming and outgoing sets.
C10_QueriesLeaveGraphUnchanged ==
    [][last'.op \in QueryOps =>
          /\ vertices' = vertices
          /\ edges' = edges
          /\ edgeObjs' = edgeObjs
          /\ vertexObjs' = vertexObjs]_vars

\* A query on a label that is no vertex of a graph with edges, after which
\* the label is still no vertex.
C10_Witness ==
    /\ last.op \in {"get_path", "get_all_reachable_vertices",
                    "count_min_additional_edges"}
    /\ last.args[1] \notin Keys(self)
    /\ edges # {}

-----------------------------------------------------------------------------
(* C7                                                                      *)

AugDone == last.op = AugOp /\ aug.pc = "idle"

AugStartOk(g, s) == s \in Keys(g) \/ Keys(g) = {}

====
